---- MODULE Spec2Model ----
(***************************************************************************)
(* parse_scanned_bt.py: the line-reading state machine read_entries, the   *)
(* headword extraction extract_headwords, the grouping collect_entries and *)
(* the pipeline main that runs them and dumps the mapping.                 *)
(*                                                                         *)
(* Python strings are TLA+ strings (Len, SubSeq and \o act on them).  SANY *)
(* reads only Latin-1 inside string literals, so four characters of the    *)
(* source are written with a Latin-1 stand-in of their own:                *)
(*     U+012B (i with macron)      is written  î                           *)
(*     U+03B1 (Greek alpha)        is written  µ                           *)
(*     U+0301 (combining acute)    is written  ´                           *)
(*     U+0304 (combining macron)   is written  ¯                           *)
(* Each stand-in is given the properties (lower-casing, decomposition,     *)
(* word-character class) of the character it stands for.                   *)
(***************************************************************************)
EXTENDS Integers, Sequences, FiniteSets, TLC

(***************************************************************************)
(* Bounds of the model.                                                    *)
(***************************************************************************)
\* Lines of the input chosen freely after the blank lead-in.
MaxLines == 3
\* Lines of an in_file handed to read_entries called on its own.
MaxFnLines == 2
\* Comma-separated pieces of the bolded phrase of an entry handed to
\* extract_headwords called on its own.
MaxPieces == 2
\* Entries of a list handed to collect_entries called on its own.
MaxEntries == 3

(***************************************************************************)
(* String primitives (Python str methods).                                 *)
(***************************************************************************)
CharAt(s, i) == SubSeq(s, i, i)

CharsOf(s) == {CharAt(s, i) : i \in 1..Len(s)}

\* str.startswith
startswith(s, p) == Len(s) >= Len(p) /\ SubSeq(s, 1, Len(p)) = p

\* str.endswith
endswith(s, p) == Len(s) >= Len(p) /\ SubSeq(s, Len(s) - Len(p) + 1, Len(s)) = p

\* The characters str.strip() removes.
Whitespace == CharsOf(" \t\n\r")

RECURSIVE lstrip(_)
lstrip(s) ==
  IF s # "" /\ CharAt(s, 1) \in Whitespace THEN lstrip(SubSeq(s, 2, Len(s))) ELSE s

RECURSIVE rstrip(_)
rstrip(s) ==
  IF s # "" /\ CharAt(s, Len(s)) \in Whitespace
  THEN rstrip(SubSeq(s, 1, Len(s) - 1))
  ELSE s

\* str.strip
strip(s) == rstrip(lstrip(s))

\* str.split(sep) for a one-character separator: every piece, empty ones too.
RECURSIVE split(_, _)
split(s, sep) ==
  IF \E i \in 1..Len(s) : CharAt(s, i) = sep
  THEN LET i == CHOOSE k \in 1..Len(s) :
                  /\ CharAt(s, k) = sep
                  /\ \A j \in 1..(k - 1) : CharAt(s, j) # sep
       IN <<SubSeq(s, 1, i - 1)>> \o split(SubSeq(s, i + 1, Len(s)), sep)
  ELSE <<s>>

\* The characters of s that satisfy keep, in order (re.sub of a character
\* class by '', and a decoder that ignores what it cannot decode).
RECURSIVE FilterChars(_, _)
FilterChars(s, keep) ==
  IF s = "" THEN ""
  ELSE (IF CharAt(s, 1) \in keep THEN CharAt(s, 1) ELSE "")
       \o FilterChars(SubSeq(s, 2, Len(s)), keep)

(***************************************************************************)
(* Character tables of the model's alphabet.  A character outside every    *)
(* table is left alone by lower-casing and decomposition and is not a word *)
(* character.                                                              *)
(***************************************************************************)
UpperChars == "ABCDEFGHIJKLMNOPQRSTUVWXYZÁÓÆÞÐ"
LowerChars == "abcdefghijklmnopqrstuvwxyzáóæþð"
AsciiLetters == CharsOf("abcdefghijklmnopqrstuvwxyzABCDEFGHIJKLMNOPQRSTUVWXYZ")
Digits == CharsOf("0123456789")
\* The code points below 128 (those the model uses).
AsciiChars ==
  AsciiLetters \cup Digits \cup CharsOf(" \t\n\r<>/,;.:=-_&!?()[]'+*")
\* Letters beyond ASCII: alphanumeric for \w.
OtherLetters == CharsOf("áóÁÓæÆþÞðÐîµ")
\* \w of a str pattern: alphanumerics and the underscore.
WordChars == AsciiLetters \cup Digits \cup OtherLetters \cup {"_"}

IndexIn(s, c) == CHOOSE i \in 1..Len(s) : CharAt(s, i) = c

\* str.lower, one character.
LowerChar(c) ==
  IF c \in CharsOf(UpperChars) THEN CharAt(LowerChars, IndexIn(UpperChars, c)) ELSE c

RECURSIVE lower(_)
lower(s) ==
  IF s = "" THEN "" ELSE LowerChar(CharAt(s, 1)) \o lower(SubSeq(s, 2, Len(s)))

\* unicodedata.normalize('NFKD', c), one character: an accented letter is
\* its base letter followed by the combining mark.
DecomposeChar(c) ==
  CASE c = "á" -> "a´"
    [] c = "ó" -> "o´"
    [] c = "Á" -> "A´"
    [] c = "Ó" -> "O´"
    [] c = "î" -> "i¯"
    [] OTHER -> c

RECURSIVE NFKD(_)
NFKD(s) ==
  IF s = "" THEN "" ELSE DecomposeChar(CharAt(s, 1)) \o NFKD(SubSeq(s, 2, Len(s)))

\* lines 132-136.
unaccented_letters(s) == FilterChars(NFKD(s), WordChars \cup {" ", "-"})

(***************************************************************************)
(* remove_trailing_part_refs: re.sub of                                    *)
(*     ((^| )([ivx]+|[abcdefoα]|[0-9]+))+$                                 *)
(* by '' in s.strip().  A match is a run of units reaching the end of the  *)
(* string; a unit is a space (or the start of the string) followed by one  *)
(* reference.  No reference holds a space, so the references of a match    *)
(* are the space-separated pieces of the matched text.                     *)
(***************************************************************************)
\* [ivx]+|[abcdefoα]|[0-9]+ matching the whole of t.
IsPartRef(t) ==
  /\ t # ""
  /\ \/ CharsOf(t) \subseteq CharsOf("ivx")
     \/ (Len(t) = 1 /\ t \in CharsOf("abcdefoµ"))
     \/ CharsOf(t) \subseteq Digits

AllPartRefs(pieces) == \A k \in 1..Len(pieces) : IsPartRef(pieces[k])

\* The pattern matches s from position i to the end of s.
PartRefsMatchAt(s, i) ==
  LET pieces == split(SubSeq(s, i, Len(s)), " ")
  IN  /\ i <= Len(s)
      /\ IF i = 1 /\ CharAt(s, 1) # " "
         THEN AllPartRefs(pieces)
         ELSE /\ CharAt(s, i) = " "
              /\ Len(pieces) >= 2
              /\ AllPartRefs(Tail(pieces))

\* lines 139-145.
remove_trailing_part_refs(s0) ==
  LET s == strip(s0)
      hits == {i \in 1..Len(s) : PartRefsMatchAt(s, i)}
  IN  IF hits = {} THEN s
      ELSE SubSeq(s, 1, (CHOOSE i \in hits : \A j \in hits : i <= j) - 1)

(***************************************************************************)
(* Exception tables.                                                       *)
(***************************************************************************)
NOT_AN_ENTRY ==
  {326, 330, 332, 692, 1845, 6016, 17859, 24005, 49675, 97466, 110519, 118045,
   119186, 126386}

ALWAYS_AN_ENTRY ==
  {12470, 17858, 60157, 60555, 60820, 75155, 75330, 77825, 83439, 84266,
   94282, 97998, 102650, 102655, 102810, 102822, 102895, 103897, 113712,
   113834, 119068, 123676}

(***************************************************************************)
(* class S: the states of the line-reading machine.                        *)
(***************************************************************************)
INTRO == "INTRO"
ENTRY == "ENTRY"
BREAK == "BREAK"
PAGE_BREAK == "PAGE_BREAK"

S == {INTRO, ENTRY, BREAK, PAGE_BREAK}

(***************************************************************************)
(* read_entries: one pass of the loop body over the locals                 *)
(*   L = [state, partial, entries, n, err].                                *)
(* err is <<>> while no assertion has failed; a failed assertion leaves    *)
(* the other locals as they were when it was evaluated and sets err to     *)
(* <<source line of the assert, its message tuple>>.                       *)
(***************************************************************************)
NoError == <<>>

\* line 84: the condition that makes a line an entry start.
IsEntryStart(line, n) == startswith(line, "<B>") /\ n \notin NOT_AN_ENTRY

\* StartAllowed with the assertion left out: a start is taken in any state.
StartAllowed_Unchecked(state, n) == state \in S

\* lines 85-86: the assertion guarding an entry start.
StartAllowed(state, n) ==
  \/ state \in {BREAK, PAGE_BREAK, INTRO}
  \/ (n \in ALWAYS_AN_ENTRY /\ state = ENTRY)

\* EmitPartial without the test of partial.
EmitPartial_Unguarded(entries, partial) == Append(entries, partial)

\* lines 89-91 and 127-128: `if partial: entries.append(partial)`.
EmitPartial(entries, partial) ==
  IF partial # "" THEN Append(entries, partial) ELSE entries

\* IsHeader not knowing the <HEADER> marker.
IsHeader_NoHeaderTag(line) ==
  \/ startswith(line, "<PAGE NUM")
  \/ startswith(line, "<letterheader")

\* lines 106-107.
IsHeader(line) ==
  \/ startswith(line, "<HEADER>")
  \/ startswith(line, "<PAGE NUM")
  \/ startswith(line, "<letterheader")

\* Continue losing the line.
Continue_DropLine(partial, line) == partial

\* line 125.
Continue(partial, line) == partial \o line \o "\n"

InitLocals ==
  [state |-> INTRO, partial |-> "", entries |-> <<>>, n |-> 0, err |-> NoError]

Raise(L, n, at, msg) == [L EXCEPT !.n = n, !.err = <<at, msg>>]

\* lines 84-94: the entry-start branch.
StartEntry(L, n, line) ==
  IF ~StartAllowed(L.state, n)
  THEN Raise(L, n, 85, <<L.state, n>>)
  ELSE IF L.state = INTRO /\ L.partial # ""
  THEN Raise(L, n, 88, <<L.partial, n>>)
  ELSE [L EXCEPT !.n = n,
                 !.entries = EmitPartial(L.entries, L.partial),
                 !.partial = line,
                 !.state = ENTRY]

\* lines 121-125: the continuation branch.
ContinueEntry(L, n, line) ==
  IF L.partial = ""
  THEN Raise(L, n, 121, <<>>)
  ELSE IF L.state \notin {ENTRY, PAGE_BREAK, BREAK}
  THEN Raise(L, n, 122, <<>>)
  ELSE IF ~(n \in NOT_AN_ENTRY \/ ~startswith(line, "<B>"))
  THEN Raise(L, n, 123, <<>>)
  ELSE [L EXCEPT !.n = n, !.state = ENTRY, !.partial = Continue(L.partial, line)]

\* IntroLine taking the line for the end of an entry.
IntroLine_ToBreak(L, n) == [L EXCEPT !.n = n, !.state = BREAK]

\* IntroLine without the `continue` of line 97: the line goes on to the
\* continuation branch, where no accumulator is open.
IntroLine_NoContinue(L, n) == Raise(L, n, 121, <<>>)

\* lines 96-97: a line that starts no entry, in INTRO.
IntroLine(L, n) == [L EXCEPT !.n = n]

\* HeaderLine without the assertion of line 108.
HeaderLine_Unchecked(L, n) == [L EXCEPT !.n = n, !.state = PAGE_BREAK]

\* lines 108-110: a header line, past the tests of lines 96 and 100.
HeaderLine(L, n) ==
  IF L.state = BREAK \/ L.state = PAGE_BREAK
  THEN [L EXCEPT !.n = n, !.state = PAGE_BREAK]
  ELSE Raise(L, n, 108, <<>>)

\* lines 80-125: the loop body for one line of in_file.
LoopBody(L, raw) ==
  LET n == L.n + 1
      line == strip(raw)
  IN  IF IsEntryStart(line, n) THEN StartEntry(L, n, line)
      ELSE IF L.state = INTRO THEN IntroLine(L, n)
      ELSE IF line = "" /\ L.state = ENTRY THEN [L EXCEPT !.n = n, !.state = BREAK]
      ELSE IF IsHeader(line) THEN HeaderLine(L, n)
      ELSE IF line = "" /\ L.state = PAGE_BREAK THEN [L EXCEPT !.n = n]
      ELSE ContinueEntry(L, n, line)

\* AfterLoop without the final append.
AfterLoop_NoEmit(L) == L

\* lines 126-129: after the loop.
AfterLoop(L) == [L EXCEPT !.entries = EmitPartial(L.entries, L.partial)]

\* read_entries on a whole in_file: the locals at the return, or at the
\* assertion that failed.
RECURSIVE RunLoop(_, _, _)
RunLoop(L, in_file, i) ==
  IF i > Len(in_file) THEN AfterLoop(L)
  ELSE LET L2 == LoopBody(L, in_file[i])
       IN IF L2.err # NoError THEN L2 ELSE RunLoop(L2, in_file, i + 1)

read_entries(in_file) == RunLoop(InitLocals, in_file, 1)

(***************************************************************************)
(* extract_headwords.                                                      *)
(***************************************************************************)
\* lines 41-55, in the order of the dict.
HEADWORD_SPECIAL_CASES ==
  << [pfx |-> "<B>a;</B>", hwd |-> "a"],
     [pfx |-> "<B>Á,</B>", hwd |-> "a"],
     [pfx |-> "<B>á,</B> <I>indecl", hwd |-> "a"],
     [pfx |-> "<B>B</B> THE sound of b is produced", hwd |-> "b"],
     [pfx |-> "<B>D</B> is sometimes changed", hwd |-> "d"],
     [pfx |-> "<B>A.</B> Anglo-Saxon words, containing the short or un", hwd |-> "e"],
     [pfx |-> "<B>F</B> At the end of syllable", hwd |-> "f"],
     [pfx |-> "<B>I</B> THE Runic character", hwd |-> "i"],
     [pfx |-> "<B>Ii,</B> Hii, <I>Iona</I>", hwd |-> "hii"],
     [pfx |-> "<B>Ó</B> <I>ever.</I>", hwd |-> "a"],
     [pfx |-> "<B>î.</B> es; <I>m. A letter</I>", hwd |-> "i"],
     [pfx |-> "<B>á</B> = on :-- Á felda", hwd |-> "a"],
     [pfx |-> "<B>á</B> <I>ever.</I> <B>B.", hwd |-> "a"] >>

\* SpecialCase applying only to an entry that is the prefix itself.
SpecialCase_ExactOnly(e) ==
  LET hits == {k \in 1..Len(HEADWORD_SPECIAL_CASES) : e = HEADWORD_SPECIAL_CASES[k].pfx}
  IN  IF hits = {} THEN 0 ELSE CHOOSE k \in hits : \A j \in hits : k <= j

\* lines 150-152: the first special case whose prefix starts e, or 0.
SpecialCase(e) ==
  LET hits == {k \in 1..Len(HEADWORD_SPECIAL_CASES) :
                 startswith(e, HEADWORD_SPECIAL_CASES[k].pfx)}
  IN  IF hits = {} THEN 0 ELSE CHOOSE k \in hits : \A j \in hits : k <= j

\* line 153: re.match('^<B>([^<]+)</B>', e): group 1, or no match.
BoldSpan(e) ==
  LET lts == {j \in 4..Len(e) : CharAt(e, j) = "<"}
      j == CHOOSE k \in lts : \A l \in lts : k <= l
  IN  IF startswith(e, "<B>") /\ lts # {} /\ j >= 5 /\ SubSeq(e, j, j + 3) = "</B>"
      THEN [matched |-> TRUE, group1 |-> SubSeq(e, 4, j - 1)]
      ELSE [matched |-> FALSE, group1 |-> ""]

\* NonEmpty keeping every item.
NonEmpty_KeepAll(seq) == seq

\* line 157: [w for w in short_words if w]
RECURSIVE NonEmpty(_)
NonEmpty(seq) ==
  IF seq = <<>> THEN <<>>
  ELSE (IF Head(seq) # "" THEN <<Head(seq)>> ELSE <<>>) \o NonEmpty(Tail(seq))

\* DropPrefixes dropping nothing.
DropPrefixes_KeepAll(short_words, i) == short_words

\* lines 161-164, from the item of index i (1-based) on.
RECURSIVE DropPrefixes(_, _)
DropPrefixes(short_words, i) ==
  IF i > Len(short_words) THEN <<>>
  ELSE (IF ~endswith(short_words[i], "-") \/ i = Len(short_words)
        THEN <<short_words[i]>> ELSE <<>>)
       \o DropPrefixes(short_words, i + 1)

\* DropSuffixes dropping nothing.
DropSuffixes_KeepAll(full_words, i) == full_words

\* lines 166-168, from the item of index i (1-based) on.
RECURSIVE DropSuffixes(_, _)
DropSuffixes(full_words, i) ==
  IF i > Len(full_words) THEN <<>>
  ELSE (IF ~startswith(full_words[i], "-") \/ i = 1
        THEN <<full_words[i]>> ELSE <<>>)
       \o DropSuffixes(full_words, i + 1)

\* line 155, one piece.
UnaccentLower(piece) == unaccented_letters(lower(piece))

\* lines 153-169: the path taken when no special case applies.
HeadwordsFromBold(e) ==
  LET m == BoldSpan(e)
      pieces == split(m.group1, ",")
      words == [i \in 1..Len(pieces) |-> UnaccentLower(pieces[i])]
      short_words ==
        NonEmpty([i \in 1..Len(words) |-> remove_trailing_part_refs(words[i])])
  IN  IF ~m.matched
      THEN [ok |-> FALSE, words |-> <<>>]
      ELSE [ok |-> TRUE, words |-> DropSuffixes(DropPrefixes(short_words, 1), 1)]

\* lines 148-169.  ok is FALSE when the assertion of line 154 fails.
extract_headwords(e) ==
  IF SpecialCase(e) # 0
  THEN [ok |-> TRUE, words |-> <<HEADWORD_SPECIAL_CASES[SpecialCase(e)].hwd>>]
  ELSE HeadwordsFromBold(e)

(***************************************************************************)
(* The module normalize is not among the sources; its two functions are    *)
(* modelled from their description as pure text transforms.                *)
(***************************************************************************)
\* The first position at which sub occurs in s, or 0.
find(s, sub) ==
  LET hits == {i \in 1..(Len(s) - Len(sub) + 1) : SubSeq(s, i, i + Len(sub) - 1) = sub}
  IN  IF hits = {} THEN 0 ELSE CHOOSE i \in hits : \A j \in hits : i <= j

\* str.replace(old, new)
RECURSIVE replace(_, _, _)
replace(s, old, new) ==
  LET i == find(s, old)
  IN  IF i = 0 THEN s
      ELSE SubSeq(s, 1, i - 1) \o new
           \o replace(SubSeq(s, i + Len(old), Len(s)), old, new)

\* normalize.fix_entities: encoded character entities rewritten.
fix_entities(text) ==
  replace(replace(text, "&aelig;", "æ"), "&alpha;", "µ")

\* normalize.ascify, one character: folded to ASCII, dropped when it has
\* no ASCII form.
AscifyChar(c) ==
  CASE c \in {"æ", "Æ"} -> "ae"
    [] c \in {"þ", "Þ", "ð", "Ð"} -> "th"
    [] c \in {"á", "Á"} -> "a"
    [] c \in {"ó", "Ó"} -> "o"
    [] c = "î" -> "i"
    [] c \in AsciiChars -> c
    [] OTHER -> ""

\* normalize.ascify: the ASCII-folded grouping form of a headword.
RECURSIVE ascify(_)
ascify(s) ==
  IF s = "" THEN "" ELSE AscifyChar(CharAt(s, 1)) \o ascify(SubSeq(s, 2, Len(s)))

(***************************************************************************)
(* collect_entries: one pass of the loop body.                             *)
(***************************************************************************)
\* line 179: the record a key not yet in the mapping gets.
NewEntry == [headwords |-> {}, defns |-> <<>>]

EmptyMap == [k \in {} |-> NewEntry]

SeqToSet(seq) == {seq[i] : i \in 1..Len(seq)}

\* AddToRecord replacing the record of the key instead of adding to it.
AddToRecord_Overwrite(collected, term, headwords, e) ==
  [k \in (DOMAIN collected) \cup {term} |->
     IF k = term
     THEN [headwords |-> SeqToSet(headwords), defns |-> <<e>>]
     ELSE collected[k]]

\* lines 189-190.
AddToRecord(collected, term, headwords, e) ==
  LET old == IF term \in DOMAIN collected THEN collected[term] ELSE NewEntry
  IN  [k \in (DOMAIN collected) \cup {term} |->
         IF k = term
         THEN [headwords |-> old.headwords \cup SeqToSet(headwords),
               defns |-> Append(old.defns, e)]
         ELSE collected[k]]

\* BadNormalization without the test of the key.
BadNormalization_HeadwordsOnly(term, headwords) ==
  \E i \in 1..Len(headwords) : headwords[i] = ""

\* line 185.
BadNormalization(term, headwords) ==
  term = "" \/ \E i \in 1..Len(headwords) : headwords[i] = ""

\* lines 181-190 for the entry e0: the mapping afterwards, or the error
\* raised (<<source line, message>>) with the mapping as it was.
CollectStep(collected, e0) ==
  LET e == fix_entities(e0)
      x == extract_headwords(e)
      headwords == x.words
      term == ascify(headwords[1])
  IN  IF ~x.ok THEN [collected |-> collected, err |-> <<154, <<e>> >>]
      ELSE IF ~(Len(headwords) >= 1)
      THEN [collected |-> collected, err |-> <<183, <<e>> >>]
      ELSE IF BadNormalization(term, headwords)
      THEN [collected |-> collected, err |-> <<186, <<term, headwords, e>> >>]
      ELSE [collected |-> AddToRecord(collected, term, headwords, e),
            err |-> NoError]

(***************************************************************************)
(* The input.  main reads stdin as ASCII with errors='ignore': characters  *)
(* beyond ASCII never reach read_entries.  The input is a lead-in of blank *)
(* lines (as many as `lead`) followed by up to MaxLines lines, each one of *)
(* LineSet; the lead-ins are those that bring the ordinals of the two      *)
(* exception tables within reach.                                          *)
(***************************************************************************)
LineSet ==
  { "",
    " \n",
    "<B>bar,</B> x\n",
    "  <B>Bar, b&aelig;r</B> y\n",
    "<B>foo-, -bar</B> z\n",
    "<B>&alpha;&alpha;</B>\n",
    "<B>i, 2</B>\n",
    "<B>á;</B> b\n",
    "<HEADER>pg</HEADER>\n",
    "<PAGE NUM=2>\n",
    "<letterheader>B\n",
    "more á text\n" }

SetMin(T) == CHOOSE x \in T : \A y \in T : x <= y

LeadChoices ==
  {0, SetMin(NOT_AN_ENTRY) - MaxLines, SetMin(ALWAYS_AN_ENTRY) - MaxLines}

\* open(..., errors='ignore', encoding='ascii'), one line.
DecodeAscii(raw) == FilterChars(raw, AsciiChars)

(***************************************************************************)
(* State.                                                                  *)
(***************************************************************************)
VARIABLES
  pc,           \* where main is: "read", "collect", "dump", "done", "failed"
  lead,         \* blank lines the input starts with
  seen,         \* the lines read after the lead-in, each with the state it met
  state,        \* read_entries: state
  partial,      \* read_entries: partial
  entries,      \* read_entries: entries
  n,            \* read_entries: n
  main_entries, \* main: entries, <<>> until read_entries has returned it
  done,         \* collect_entries: entries of main_entries already processed
  collected,    \* collect_entries: collected
  err,          \* the exception that ended the run, NoError while there is none
  stdout,       \* what has been written to sys.stdout: <<>>, or the mapping
  arg,          \* a function called on its own: its argument
  ret           \* a function called on its own: <<>>, or <<its result>>

vars ==
  <<pc, lead, seen, state, partial, entries, n, main_entries, done, collected,
    err, stdout, arg, ret>>

\* The variables of main.
mainVars ==
  <<pc, lead, seen, state, partial, entries, n, main_entries, done, collected,
    err, stdout>>

InitMain ==
  /\ pc = "read"
  /\ seen = <<>>
  /\ state = INTRO
  /\ partial = ""
  /\ entries = <<>>
  /\ n = 0
  /\ main_entries = <<>>
  /\ done = 0
  /\ collected = EmptyMap
  /\ err = NoError
  /\ stdout = <<>>

Locals == [state |-> state, partial |-> partial, entries |-> entries, n |-> n,
           err |-> err]

Init ==
  /\ InitMain
  /\ lead \in LeadChoices
  /\ arg = <<>>
  /\ ret = <<>>

\* lines 79-125: the loop body runs on the next line of stdin.
ReadOne(raw) ==
  LET L == LoopBody(Locals, DecodeAscii(raw))
  IN  /\ state' = L.state
      /\ partial' = L.partial
      /\ entries' = L.entries
      /\ n' = L.n
      /\ err' = L.err
      /\ pc' = IF L.err # NoError THEN "failed" ELSE "read"
      /\ UNCHANGED <<lead, main_entries, done, collected, stdout, arg, ret>>

\* A line of the blank lead-in.
ReadLeadLine ==
  /\ pc = "read"
  /\ n < lead
  /\ ReadOne("\n")
  /\ UNCHANGED seen

\* A line after the lead-in.
ReadLine ==
  /\ pc = "read"
  /\ n >= lead
  /\ Len(seen) < MaxLines
  /\ \E raw \in LineSet :
       /\ ReadOne(raw)
       /\ seen' = Append(seen, [line |-> DecodeAscii(raw), state |-> state, n |-> n + 1])

\* lines 126-129 and 201: the input ends, read_entries returns.
EndOfInput ==
  /\ pc = "read"
  /\ n >= lead
  /\ entries' = AfterLoop(Locals).entries
  /\ main_entries' = <<entries'>>
  /\ pc' = "collect"
  /\ UNCHANGED <<lead, seen, state, partial, n, done, collected, err, stdout, arg, ret>>

\* lines 180-190: the loop body of collect_entries on the next entry.
CollectEntry ==
  /\ pc = "collect"
  /\ done < Len(main_entries[1])
  /\ LET r == CollectStep(collected, main_entries[1][done + 1])
     IN  /\ collected' = r.collected
         /\ err' = r.err
         /\ done' = IF r.err = NoError THEN done + 1 ELSE done
         /\ pc' = IF r.err = NoError THEN "collect" ELSE "failed"
  /\ UNCHANGED <<lead, seen, state, partial, entries, n, main_entries, stdout, arg, ret>>

\* lines 191 and 202: collect_entries returns.
CollectReturn ==
  /\ pc = "collect"
  /\ done = Len(main_entries[1])
  /\ pc' = "dump"
  /\ UNCHANGED <<lead, seen, state, partial, entries, n, main_entries, done,
                 collected, err, stdout, arg, ret>>

\* lines 194-195.
entry_as_dict(entry) == [headwords |-> entry.headwords, defns |-> entry.defns]

\* Dump as if in a `finally`: the mapping is written after an error too.
Dump_InFinally ==
  /\ pc \in {"dump", "failed"}
  /\ stdout = <<>>
  /\ stdout' = <<[k \in DOMAIN collected |-> entry_as_dict(collected[k])]>>
  /\ pc' = IF pc = "dump" THEN "done" ELSE pc
  /\ UNCHANGED <<lead, seen, state, partial, entries, n, main_entries, done,
                 collected, err, arg, ret>>

\* lines 203-204: the mapping is written.
Dump ==
  /\ pc = "dump"
  /\ stdout' = <<[k \in DOMAIN collected |-> entry_as_dict(collected[k])]>>
  /\ pc' = "done"
  /\ UNCHANGED <<lead, seen, state, partial, entries, n, main_entries, done,
                 collected, err, arg, ret>>

Next ==
  \/ ReadLeadLine
  \/ ReadLine
  \/ EndOfInput
  \/ CollectEntry
  \/ CollectReturn
  \/ Dump

Spec == Init /\ [][Next]_vars

(***************************************************************************)
(* read_entries called on its own, on a list of lines: the scenario        *)
(* transcript and every list got from it by leaving lines out, and every   *)
(* list of up to MaxFnLines lines of LineSet.                              *)
(***************************************************************************)
Scenario ==
  << "", "<B>word,</B> text1", "", "<B>word2,</B> text2", "<HEADER>pg</HEADER>",
     "", "more text2" >>

\* The items of seq whose index is in idx, in order.
RECURSIVE Pick(_, _, _)
Pick(seq, idx, i) ==
  IF i > Len(seq) THEN <<>>
  ELSE (IF i \in idx THEN <<seq[i]>> ELSE <<>>) \o Pick(seq, idx, i + 1)

\* The sequences over T of length at most k.
SeqsUpTo(T, k) == UNION {[1..m -> T] : m \in 0..k}

ReadInputs ==
  {Pick(Scenario, idx, 1) : idx \in SUBSET (1..Len(Scenario))}
    \cup SeqsUpTo(LineSet, MaxFnLines)

InitRead ==
  /\ InitMain
  /\ lead = 0
  /\ arg \in ReadInputs
  /\ ret = <<>>

CallReadEntries ==
  /\ ret = <<>>
  /\ ret' = <<read_entries(arg)>>
  /\ UNCHANGED <<mainVars, arg>>

SpecRead == InitRead /\ [][CallReadEntries]_vars

(***************************************************************************)
(* extract_headwords called on its own, on an entry text: a special-case   *)
(* prefix or a bolded phrase of up to MaxPieces comma-separated pieces,    *)
(* followed by some text; and texts with no bolded phrase.                 *)
(***************************************************************************)
PieceSet ==
  { "foo-", " -bar", "bar-baz", "foo-bar", "-baz", "a", " Wórd; i 2", "", "-" }

TailSet == { "", " text", " <I>m.</I> <B>bar</B>" }

RECURSIVE join(_, _)
join(seq, sep) ==
  IF seq = <<>> THEN ""
  ELSE IF Len(seq) = 1 THEN seq[1]
  ELSE seq[1] \o sep \o join(Tail(seq), sep)

EntryTexts ==
  {HEADWORD_SPECIAL_CASES[k].pfx \o t : k \in 1..Len(HEADWORD_SPECIAL_CASES), t \in TailSet}
    \cup {"<B>" \o join(ps, ",") \o "</B>" \o t :
            ps \in SeqsUpTo(PieceSet, MaxPieces) \ {<<>>}, t \in TailSet}
    \cup {"", "text", "<B>bar", "<B>bar<I>x</I></B>", "<I>bar</I>"}

InitExtract ==
  /\ InitMain
  /\ lead = 0
  /\ arg \in EntryTexts
  /\ ret = <<>>

CallExtractHeadwords ==
  /\ ret = <<>>
  /\ ret' = <<extract_headwords(arg)>>
  /\ UNCHANGED <<mainVars, arg>>

SpecExtract == InitExtract /\ [][CallExtractHeadwords]_vars

(***************************************************************************)
(* collect_entries called on its own (line 202), on a list of up to        *)
(* MaxEntries blocks as read_entries returns them: each starts with <B>.   *)
(***************************************************************************)
EntryPool ==
  { "<B>bar,</B> x",
    "<B>Bar, b&aelig;r</B> y\nmore\n",
    "<B>foo-, -bar</B> z",
    "<B>&alpha;&alpha;</B>",
    "<B>i, 2</B>",
    "<B>a;</B> b",
    "<B>&aelig;; a</B> c",
    "<B>bar" }

InitCollect ==
  /\ pc = "collect"
  /\ main_entries \in {<<es>> : es \in SeqsUpTo(EntryPool, MaxEntries)}
  /\ done = 0
  /\ collected = EmptyMap
  /\ err = NoError
  /\ stdout = <<>>
  /\ lead = 0
  /\ seen = <<>>
  /\ state = INTRO
  /\ partial = ""
  /\ entries = <<>>
  /\ n = 0
  /\ arg = <<>>
  /\ ret = <<>>

NextCollect ==
  \/ CollectEntry
  \/ CollectReturn

SpecCollect == InitCollect /\ [][NextCollect]_vars

(***************************************************************************)
(* Claims.                                                                 *)
(***************************************************************************)
\* C1 (as stated): read_entries on the seven-line scenario transcript
\* returns without error exactly the two blocks "<B>word,</B> text1" and
\* "<B>word2,</B> text2\nmore text2".
C1_ScenarioBlocks ==
  (arg = Scenario /\ ret # <<>>) =>
    /\ ret[1].err = NoError
    /\ ret[1].entries = << "<B>word,</B> text1", "<B>word2,</B> text2\nmore text2" >>

\* C1 (amended): on the scenario transcript read_entries does not return:
\* the header line, ordinal 5, arrives in state ENTRY and the assertion of
\* line 108 fails, with "<B>word,</B> text1" in the output and
\* "<B>word2,</B> text2" in the accumulator.
C1_ScenarioAborts ==
  (arg = Scenario /\ ret # <<>>) =>
    ret[1] = [state |-> ENTRY, partial |-> "<B>word2,</B> text2",
              entries |-> <<"<B>word,</B> text1">>, n |-> 5,
              err |-> <<108, <<>> >>]

C1_Witness == arg = Scenario /\ ret # <<>>

\* The step from the current state reads `line` (a line after the lead-in,
\* as decoded).
ReadsLine(line) ==
  /\ pc = "read"
  /\ Len(seen') = Len(seen) + 1
  /\ seen'[Len(seen')].line = line

BoldOpen(line) == startswith(strip(line), "<B>")

\* C2: a line that starts with <B>, whose ordinal is in neither exception
\* table, read while the state is ENTRY, ends the run with an error: the
\* accumulator and the output stay as they were, read_entries returns no
\* list, and nothing happens afterwards.
C2_BoldInEntryAborts ==
  [][ /\ \A raw \in LineSet :
           ( /\ ReadsLine(DecodeAscii(raw))
             /\ BoldOpen(DecodeAscii(raw))
             /\ state = ENTRY
             /\ (n + 1) \notin NOT_AN_ENTRY
             /\ (n + 1) \notin ALWAYS_AN_ENTRY )
           => ( /\ pc' = "failed"
                /\ err' # NoError
                /\ partial' = partial
                /\ entries' = entries
                /\ main_entries' = <<>> )
      /\ pc = "failed" => FALSE
    ]_vars

C2_Witness ==
  /\ pc = "failed"
  /\ err = <<85, <<ENTRY, n>> >>
  /\ partial # ""
  /\ main_entries = <<>>

\* C3: the mapping is written only after read_entries has returned and
\* collect_entries has processed every entry; a run ended by an error has
\* written nothing.
C3_AllOrNothing ==
  /\ stdout # <<>> =>
       /\ pc = "done"
       /\ err = NoError
       /\ main_entries # <<>>
       /\ done = Len(main_entries[1])
       /\ stdout[1] = collected
  /\ (err # NoError \/ pc = "failed") => stdout = <<>>

\* An error in collect_entries after entries have been grouped.
C3_Witness ==
  /\ pc = "failed"
  /\ done >= 1
  /\ collected # EmptyMap
  /\ stdout = <<>>

\* C4: every block in the output of read_entries is a non-empty string.
C4_NoEmptyBlock ==
  /\ \A i \in 1..Len(entries) : entries[i] # ""
  /\ main_entries # <<>> => \A i \in 1..Len(main_entries[1]) : main_entries[1][i] # ""

\* Blocks emitted at a new entry start and at the end of the input.
C4_Witness ==
  /\ main_entries # <<>>
  /\ Len(main_entries[1]) >= 2

\* What the line-accounting claim says of one line read: it starts a block,
\* or one of the four discard rules applies to it, or it continues the block
\* under way.
C5_IsStart(item) ==
  startswith(strip(item.line), "<B>") /\ item.n \notin NOT_AN_ENTRY

C5_IsHeaderLine(item) ==
  \E tag \in {"<HEADER>", "<PAGE NUM", "<letterheader"} :
    startswith(strip(item.line), tag)

C5_Discarded(item) ==
  \/ item.state = INTRO
  \/ (strip(item.line) = "" /\ item.state = ENTRY)
  \/ (C5_IsHeaderLine(item) /\ item.state \in {BREAK, PAGE_BREAK})
  \/ (strip(item.line) = "" /\ item.state = PAGE_BREAK)

\* The blocks the lines read account for: the text of each block is the text
\* of its start line followed by that of its continuation lines, in the
\* order read.  lost: a line neither discarded nor part of a block.
RECURSIVE C5_Account(_, _, _)
C5_Account(items, i, acc) ==
  IF i > Len(items) THEN acc
  ELSE LET item == items[i]
           k == Len(acc.blocks)
       IN  IF C5_IsStart(item)
           THEN C5_Account(items, i + 1,
                  [acc EXCEPT !.blocks = Append(@, strip(item.line))])
           ELSE IF C5_Discarded(item)
           THEN C5_Account(items, i + 1, acc)
           ELSE IF k = 0
           THEN C5_Account(items, i + 1, [acc EXCEPT !.lost = TRUE])
           ELSE C5_Account(items, i + 1,
                  [acc EXCEPT !.blocks[k] = @ \o strip(item.line)])

\* The text of a block without its line terminators.
C5_Text(block) == FilterChars(block, CharsOf(block) \ {"\n"})

splitlines(s) ==
  LET pieces == split(s, "\n")
  IN  IF pieces[Len(pieces)] = "" THEN SubSeq(pieces, 1, Len(pieces) - 1) ELSE pieces

\* C6 (as stated): for any two blocks b1, b2 returned by a successful run of
\* read_entries, read_entries on the lines of b1, a blank line and the lines
\* of b2 returns exactly <<b1, b2>>.
C6_Idempotent ==
  (ret # <<>> /\ ret[1].err = NoError) =>
    \A i, j \in 1..Len(ret[1].entries) :
      LET b1 == ret[1].entries[i]
          b2 == ret[1].entries[j]
          again == read_entries(splitlines(b1) \o <<"">> \o splitlines(b2))
      IN  again.err = NoError /\ again.entries = <<b1, b2>>

\* The entries collect_entries has processed, entity-normalized, in order.
ProcessedDefns ==
  [k \in 1..done |-> fix_entities(main_entries[1][k])]

HeadwordsOf(e) == extract_headwords(e).words

KeyOf(e) == ascify(HeadwordsOf(e)[1])

\* The items of defns whose key is term, in order.
RECURSIVE DefnsOfKey(_, _)
DefnsOfKey(defns, term) ==
  IF defns = <<>> THEN <<>>
  ELSE (IF KeyOf(Head(defns)) = term THEN <<Head(defns)>> ELSE <<>>)
       \o DefnsOfKey(Tail(defns), term)

\* C7: while no error has occurred, the mapping has one record for each key
\* that the first headword of a processed entry folds to; the record's
\* spellings are the union of the headwords extracted from the entries of
\* that key, and its definitions are those entries, entity-normalized, once
\* each and in the order of the entry stream.
C7_Grouping ==
  (err = NoError /\ main_entries # <<>>) =>
    /\ DOMAIN collected = {KeyOf(ProcessedDefns[k]) : k \in 1..done}
    /\ \A term \in DOMAIN collected :
         /\ collected[term].headwords =
              UNION {SeqToSet(HeadwordsOf(ProcessedDefns[k])) :
                       k \in {j \in 1..done : KeyOf(ProcessedDefns[j]) = term}}
         /\ collected[term].defns = DefnsOfKey(ProcessedDefns, term)

\* Two keys, one of them with two entries and two spellings.
C7_Witness ==
  /\ err = NoError
  /\ pc = "dump"
  /\ done = 3
  /\ \E t1, t2 \in DOMAIN collected :
       /\ t1 # t2
       /\ Len(collected[t1].defns) = 2
       /\ collected[t1].defns[1] # collected[t1].defns[2]
       /\ Cardinality(collected[t1].headwords) = 2

\* The entry e0 has (after entity normalization) a bolded phrase or special
\* case but no headword, an empty headword, or an empty key.
EmptyKeyOrHeadword(e0) ==
  LET x == extract_headwords(fix_entities(e0))
  IN  /\ x.ok
      /\ \/ x.words = <<>>
         \/ \E i \in 1..Len(x.words) : x.words[i] = ""
         \/ ascify(x.words[1]) = ""

\* C8: the empty string is never a key of the mapping, and the pass of
\* collect_entries over an entry with an empty key or an empty headword
\* ends the run with an error, the mapping left as it was and the entry not
\* counted as processed.
C8_NoEmptyKey ==
  /\ []("" \notin DOMAIN collected)
  /\ [][ ( /\ pc = "collect"
           /\ done < Len(main_entries[1])
           /\ EmptyKeyOrHeadword(main_entries[1][done + 1]) )
         => ( /\ pc' = "failed"
              /\ err' # NoError
              /\ collected' = collected
              /\ done' = done )
       ]_vars

\* An entry whose headword folds to the empty key has ended the run.
C8_Witness ==
  /\ pc = "failed"
  /\ err # NoError
  /\ err[1] = 186
  /\ err[2][1] = ""
  /\ done >= 1

\* C9: for an entry text that begins with a prefix of the special-case map,
\* extract_headwords returns the one-element list of the headword mapped to
\* that prefix, whatever follows the prefix.
C9_SpecialCase ==
  ret # <<>> =>
    \A k \in 1..Len(HEADWORD_SPECIAL_CASES) :
      startswith(arg, HEADWORD_SPECIAL_CASES[k].pfx) =>
        ret[1] = [ok |-> TRUE, words |-> <<HEADWORD_SPECIAL_CASES[k].hwd>>]

\* A special-case prefix followed by text, where the rules for a bolded
\* phrase would have given something else.
C9_Witness ==
  /\ ret # <<>>
  /\ \E k \in 1..Len(HEADWORD_SPECIAL_CASES) :
       /\ startswith(arg, HEADWORD_SPECIAL_CASES[k].pfx)
       /\ arg # HEADWORD_SPECIAL_CASES[k].pfx
  /\ HeadwordsFromBold(arg).ok
  /\ HeadwordsFromBold(arg) # ret[1]

\* C10 (as stated): for "<B>foo-, -bar</B> text" extract_headwords returns
\* the list ["bar"].
C10_DashStripped ==
  (arg = "<B>foo-, -bar</B> text" /\ ret # <<>>) =>
    ret[1] = [ok |-> TRUE, words |-> <<"bar">>]

\* C10 (amended): for "<B>foo-, -bar</B> text" extract_headwords drops the
\* piece "foo-", keeps the piece "-bar" with its leading hyphen and returns
\* the list ["-bar"].
C10_KeepsHyphen ==
  (arg = "<B>foo-, -bar</B> text" /\ ret # <<>>) =>
    ret[1] = [ok |-> TRUE, words |-> <<"-bar">>]

C10_Witness == arg = "<B>foo-, -bar</B> text" /\ ret # <<>> /\ ret[1].ok

\* The non-empty stripped pieces of the bolded phrase of e (lines 155-157).
C11_Pieces(e) ==
  LET pieces == split(BoldSpan(e).group1, ",")
  IN  NonEmpty([i \in 1..Len(pieces) |->
                  remove_trailing_part_refs(UnaccentLower(pieces[i]))])

\* The items of seq at the indices of K, in the order of seq.
RECURSIVE C11_Select(_, _, _)
C11_Select(seq, K, i) ==
  IF i > Len(seq) THEN <<>>
  ELSE (IF i \in K THEN <<seq[i]>> ELSE <<>>) \o C11_Select(seq, K, i + 1)

\* C11: on the path of the bolded phrase, extract_headwords returns the
\* non-empty stripped pieces in their original order, less (first) every
\* piece that ends with a hyphen and is not the last piece, and (then) every
\* surviving piece that begins with a hyphen and is not the first survivor;
\* ["foo-", "bar-baz"] gives ["bar-baz"] and ["foo-bar", "-baz"] gives
\* ["foo-bar"].
C11_HyphenVariants ==
  (ret # <<>> /\ SpecialCase(arg) = 0 /\ ret[1].ok) =>
    LET P  == C11_Pieces(arg)
        K1 == {i \in 1..Len(P) : ~endswith(P[i], "-") \/ i = Len(P)}
        K2 == {i \in K1 : ~startswith(P[i], "-") \/ (\A j \in K1 : i <= j)}
    IN  /\ ret[1].words = C11_Select(P, K2, 1)
        /\ (P = <<"foo-", "bar-baz">> => ret[1].words = <<"bar-baz">>)
        /\ (P = <<"foo-bar", "-baz">> => ret[1].words = <<"foo-bar">>)

\* One of the two constructed cases has been extracted: two pieces went in
\* and one headword came out.
C11_Witness ==
  /\ ret # <<>> /\ SpecialCase(arg) = 0 /\ ret[1].ok
  /\ C11_Pieces(arg) \in {<<"foo-", "bar-baz">>, <<"foo-bar", "-baz">>}
  /\ Len(ret[1].words) = 1

\* The lines of each block, in the order read: a start line opens a block,
\* a line that is neither a start nor discarded continues the last block.
RECURSIVE C12_Lines(_, _, _)
C12_Lines(items, i, blocks) ==
  IF i > Len(items) THEN blocks
  ELSE LET item == items[i]
           k == Len(blocks)
       IN  IF C5_IsStart(item)
           THEN C12_Lines(items, i + 1, Append(blocks, <<strip(item.line)>>))
           ELSE IF C5_Discarded(item) \/ k = 0
           THEN C12_Lines(items, i + 1, blocks)
           ELSE C12_Lines(items, i + 1,
                  [blocks EXCEPT ![k] = Append(@, strip(item.line))])

\* C12 (as stated): every block read_entries returns is its start line and
\* its continuation lines joined with newlines, so that splitting the block
\* on newlines gives back its lines.
C12_NewlineJoined ==
  main_entries # <<>> =>
    LET blocks == C12_Lines(seen, 1, <<>>)
    IN  \A k \in 1..Len(main_entries[1]) :
          k <= Len(blocks) =>
            /\ main_entries[1][k] = join(blocks[k], "\n")
            /\ split(main_entries[1][k], "\n") = blocks[k]

C14_BlankIsSeparator ==
  [][ \A raw \in LineSet :
        ( /\ ReadsLine(DecodeAscii(raw))
          /\ strip(DecodeAscii(raw)) = ""
          /\ state # INTRO )
        => ( /\ pc' = "read"
             /\ partial' = partial
             /\ entries' = entries
             /\ state' \in {BREAK, PAGE_BREAK} )
    ]_vars

\* C15 (as stated): whenever read_entries ends with an error, the error
\* carries the state the machine was in and the ordinal of the line that
\* was being read.
C15_ErrorHasContext ==
  (pc = "failed" /\ main_entries = <<>>) =>
    \E st \in S : err[2] = <<st, n>> /\ st = state

\* C16: the output of read_entries grows only by appending the accumulated
\* entry, when an entry-start line is accepted while an entry is being
\* accumulated or when the input ends; lines that are blank, headers or
\* continuations append nothing, and a block once in the output stays as it
\* is.  So the list a successful run returns has one block for each
\* entry-start line read, in the order read, each starting with its start
\* line.
C16_BoundariesFromStarts ==
  /\ [][ /\ (entries' # entries) =>
              ( /\ pc = "read"
                /\ partial # ""
                /\ entries' = Append(entries, partial)
                /\ \/ pc' = "collect"
                   \/ /\ pc' = "read"
                      /\ Len(seen') = Len(seen) + 1
                      /\ C5_IsStart(seen'[Len(seen')]) )
         /\ (main_entries # <<>>) => (main_entries' = main_entries)
         /\ (main_entries = <<>> /\ main_entries' # <<>>) =>
              (main_entries' = <<entries'>>)
        ]_vars
  /\ [](main_entries # <<>> =>
          LET blocks == C12_Lines(seen, 1, <<>>)
          IN  /\ Len(main_entries[1]) =
                   Cardinality({i \in 1..Len(seen) : C5_IsStart(seen[i])})
              /\ Len(main_entries[1]) = Len(blocks)
              /\ \A k \in 1..Len(blocks) :
                   startswith(main_entries[1][k], blocks[k][1]))

\* A run has returned two blocks: the first was appended at the second
\* entry-start line, the second at the end of the input.
C16_Witness ==
  /\ main_entries # <<>>
  /\ Len(main_entries[1]) = 2
  /\ main_entries[1][1] # main_entries[1][2]
  /\ Cardinality({i \in 1..Len(seen) : C5_IsStart(seen[i])}) = 2

\* A step of read_entries on one line, of the lead-in or after it.
C17_ReadStep == pc = "read" /\ n' = n + 1

\* The line such a step reads, trimmed.
C17_LineRead ==
  IF Len(seen') = Len(seen) + 1 THEN strip(seen'[Len(seen')].line) ELSE ""

\* C17: in INTRO a line that is not an entry start (it does not start with
\* <B>, or its ordinal is in NOT_AN_ENTRY) is dropped without an error: the
\* state stays INTRO, the accumulator and the output stay empty.  The state
\* leaves INTRO only on reading an entry-start line, which opens the first
\* entry, and never becomes INTRO again.
C17_IntroHandling ==
  /\ [](state = INTRO => (partial = "" /\ entries = <<>>))
  /\ [][ /\ (C17_ReadStep /\ state = INTRO) =>
              IF startswith(C17_LineRead, "<B>") /\ (n + 1) \notin NOT_AN_ENTRY
              THEN /\ state' = ENTRY
                   /\ partial' = C17_LineRead
                   /\ entries' = <<>>
                   /\ err' = NoError
              ELSE /\ state' = INTRO
                   /\ partial' = ""
                   /\ entries' = <<>>
                   /\ err' = NoError
                   /\ pc' = "read"
         /\ (state = INTRO /\ state' # INTRO) => C17_ReadStep
         /\ (state # INTRO) => (state' # INTRO)
        ]_vars

\* Still in INTRO after a header line and a line that starts with <B> at an
\* ordinal of NOT_AN_ENTRY.
C17_Witness ==
  /\ pc = "read"
  /\ state = INTRO
  /\ \E i \in 1..Len(seen) : C5_IsHeaderLine(seen[i])
  /\ \E i \in 1..Len(seen) :
       BoldOpen(seen[i].line) /\ seen[i].n \in NOT_AN_ENTRY

\* C18: between two lines of read_entries, and when it ends, the
\* accumulator is empty exactly when the state is INTRO.  The assertions of
\* lines 88, 121, 122 and 123 therefore never fail: read_entries fails only
\* at line 85 (an entry start read in ENTRY at an ordinal outside
\* ALWAYS_AN_ENTRY) and at line 108 (a header line read in ENTRY).
C18_AccumulatorOpen ==
  /\ (partial = "") <=> (state = INTRO)
  /\ (pc = "failed" /\ main_entries = <<>>) =>
       /\ err[1] \in {85, 108}
       /\ state = ENTRY
       /\ seen # <<>>
       /\ seen[Len(seen)].n = n
       /\ (err[1] = 85) =>
            (BoldOpen(seen[Len(seen)].line) /\ n \notin ALWAYS_AN_ENTRY)
       /\ (err[1] = 108) => C5_IsHeaderLine(seen[Len(seen)])

\* The continuation branch has run, its three assertions passing, on a line
\* read in BREAK; the run goes on.
C18_Witness ==
  /\ pc = "read"
  /\ state = ENTRY
  /\ seen # <<>>
  /\ seen[Len(seen)].state = BREAK
  /\ ~C5_IsStart(seen[Len(seen)])
  /\ strip(seen[Len(seen)].line) # ""
  /\ endswith(partial, strip(seen[Len(seen)].line) \o "\n")

\* The comma pieces of the bolded phrase of e, each normalized and stripped
\* of its trailing part references (lines 155-156), empty ones included.
C19_Stripped(e) ==
  LET pieces == split(BoldSpan(e).group1, ",")
  IN  [i \in 1..Len(pieces) |->
         remove_trailing_part_refs(UnaccentLower(pieces[i]))]

\* C19: on the path of the bolded phrase, the list extract_headwords
\* returns holds no empty string, so the test `any(h == '' ...)` of line 185
\* is false on it; the first hyphen filter keeps the last non-empty piece
\* and the second keeps the first survivor of the first, so the list is
\* empty exactly when every comma piece is empty once normalized and
\* stripped.
C19_NoEmptyHeadword ==
  (ret # <<>> /\ SpecialCase(arg) = 0 /\ ret[1].ok) =>
    LET words == ret[1].words
        all   == C19_Stripped(arg)
        kept  == {i \in 1..Len(all) : all[i] # ""}
        first == DropPrefixes(C11_Pieces(arg), 1)
    IN  /\ \A i \in 1..Len(words) : words[i] # ""
        /\ ~BadNormalization("x", words)
        /\ (words = <<>>) <=> (kept = {})
        /\ (kept # {}) =>
             /\ first # <<>>
             /\ first[Len(first)] = all[CHOOSE i \in kept : \A j \in kept : j <= i]
             /\ words # <<>>
             /\ words[1] = first[1]

\* Headwords were extracted from a phrase with a piece that is empty once
\* stripped; the piece that is left ends with a hyphen and is kept, being
\* the last one.
C19_Witness ==
  /\ ret # <<>> /\ SpecialCase(arg) = 0 /\ ret[1].ok
  /\ \E i \in 1..Len(C19_Stripped(arg)) : C19_Stripped(arg)[i] = ""
  /\ Len(ret[1].words) = 1
  /\ endswith(ret[1].words[1], "-")

====
